---- MODULE Spec2Model ----
(***************************************************************************)
(* The round / game state machine of the murder-mystery party game, as    *)
(* implemented by FirebaseService (src/firebase.js) over one session      *)
(* document and its players sub-collection, with the host-side guards of  *)
(* GameView (src/components/views/GameView.js).                           *)
(*                                                                         *)
(* Round ordinals are kept in tenths so that the accusation round 5.5 is  *)
(* the integer 55: 0, 10, 20, 30, 40, 50, 55, 60, 70.                     *)
(*                                                                         *)
(* Every await on the document store is an interleaving point: a service  *)
(* method is a sequence of actions, one per store read or write, and the  *)
(* locals it carries across awaits live in calls[c].                      *)
(***************************************************************************)
EXTENDS Integers, Sequences, FiniteSets, TLC

VARIABLES
    gameExists,     \* the session document games/{gameId} exists
    status,         \* gameData.status
    currentRound,   \* gameData.currentRound, in tenths
    gameAccusations,\* gameData.accusations.accusations
    players,        \* ids of the documents of games/{gameId}/players
    roundStates,    \* player.roundStates, by top-level key
    readyStatus,    \* player.readyStatus (legacy field)
    made,           \* player.accusations.made
    characterName,  \* player.characterName ("null": none assigned)
    calls,          \* service calls in flight, suspended at an await
    failures,       \* store requests rejected so far
    readyCalls,     \* updatePlayerReady calls made so far
    now,            \* the value Date.now() returns, in milliseconds
    gameData,       \* the gameData prop GameView renders from
    voteTotals,     \* the value getAccusationVoteTotals() returned last
    games,          \* ids of the other documents of the games collection
    gameState,      \* gameData.gameState
    fetches,        \* subscribeToGame: getGameData calls of the listeners in flight
    seen,           \* subscribeToGame: what each onSnapshot listener last fired for
    lastData,       \* subscribeToGame: let lastData
    delivered,      \* subscribeToGame: the argument of the last callback(data)
    called          \* subscribeToGame: callback has been invoked

vars == <<gameExists, status, currentRound, gameAccusations, players,
          roundStates, readyStatus, made, characterName, calls, failures, readyCalls, now,
          gameData, voteTotals, games, gameState,
          fetches, seen, lastData, delivered, called>>

\* the state of a subscribeToGame subscription
listener == <<fetches, seen, lastData, delivered, called>>

\* the rest of the games collection, and the session's soft-delete flag
others == <<games, gameState>>

view == <<gameData, voteTotals, listener>>

store == <<gameExists, status, currentRound, gameAccusations, players,
           roundStates, readyStatus, made, characterName>>

-----------------------------------------------------------------------------
(* Bounds of the model *)

\* service calls that may be suspended at an await at the same time
MaxCalls == 2
\* largest round marker (in tenths) the model lets advanceRound write
MaxRound == 80
\* accusations one player may submit
MaxAccusations == 2
\* store requests that may be rejected in one behaviour
MaxFailures == 1
\* updatePlayerReady calls in one behaviour
MaxReadyCalls == 1
\* largest value of the millisecond clock
MaxNow == 1
\* accusation records per player in a gameData prop given to GameView
MaxVoteRecords == 2
\* largest round marker up to which overlapping service calls are explored
MaxRaceRound == 30
\* getGameData calls a subscription has in flight at once
MaxFetches == 2
\* timestamps are 0 (null) to MaxTime
MaxTime == 2

(* Program constants *)

\* gameFlow.minPlayers of the script
minPlayers == 2
\* gameFlow.maxPlayers of the script
maxPlayers == 2
\* generateUniqueGameId(maxAttempts = 10)
maxAttempts == 10

Calls == 1..MaxCalls
\* user ids: real players, and virtual players ('player_' + character name)
RealUsers == {"host", "p1"}
VirtualUsers == {"player_Mustard"}
Users == RealUsers \cup VirtualUsers
hostUserId == "host"
\* characterName of the script's characters
Characters == {"Mustard", "Scarlet"}
\* values passed as accusedCharacter
Accused == Characters \cup {""}

\* gameFlow.roundOrder, in tenths
roundOrder == <<10, 20, 30, 40, 50, 55, 60, 70>>
RoundSet == {0} \cup {roundOrder[i] : i \in 1..Len(roundOrder)}

\* top-level keys of the roundStates map
Keys == 0..(MaxRound \div 10)
Tri == {"none", "false", "true"}

\* roundStates[k]: the value {ready, readyAt} written for key k ("none": no
\* ready field), and the ready flag of a child map under the nested key "5"
NoEntry == [ready |-> "none", sub |-> "none"]
NoRoundStates == [k \in Keys |-> NoEntry]

Idle == [op |-> "idle", pc |-> "idle", user |-> "host", r |-> 0, ps |-> {},
         accused |-> "Mustard", ts |-> 0, character |-> "null",
         virtual |-> "none", gameId |-> ""]

-----------------------------------------------------------------------------
(* Pure helpers *)

\* let nextRound of advanceRound
nextRound(cur) ==
    IF cur = 50 THEN 55
    ELSE IF cur = 55 THEN 60
    ELSE cur + 10

\* The field path of `roundStates.${round}` as DocumentReference.update splits
\* it on dots: "roundStates.2" is <<2>>, "roundStates.5.5" is <<5, 5>>.
FieldPath(round) ==
    IF round % 10 = 0 THEN <<round \div 10>> ELSE <<round \div 10, round % 10>>

\* update({[`roundStates.${round}`]: {ready, readyAt}}) on one player's map
SetRoundState(rs, round, ready) ==
    LET path == FieldPath(round)
        v == IF ready THEN "true" ELSE "false"
    IN IF Len(path) = 1
       THEN [rs EXCEPT ![path[1]] = [ready |-> v, sub |-> "none"]]
       ELSE [rs EXCEPT ![path[1]].sub = v]

\* player.roundStates?.[round]: the value under the top-level key String(round)
RoundState(rs, round) ==
    IF round % 10 = 0 /\ (round \div 10) \in Keys
    THEN rs[round \div 10].ready
    ELSE "none"

\* p.roundStates?.[gameData.currentRound]?.ready || false, for every player
allPlayersReadyForRound(ps, rss, round) ==
    \A p \in ps : RoundState(rss[p], round) = "true"

\* player.accusations?.made?.some(acc => acc.round === 5.5)
hasPlayerAccused(m) == \E i \in 1..Len(m) : m[i].round = 55

\* firestore.FieldValue.arrayUnion(x) applied to an array field: x is added
\* at the end unless an equal element is already in the array
arrayUnion(arr, x) ==
    IF \E i \in 1..Len(arr) : arr[i] = x THEN arr ELSE Append(arr, x)

allAccusationsSubmitted(ps, mm) == \A p \in ps : hasPlayerAccused(mm[p])

-----------------------------------------------------------------------------
(* GameView: getAccusationVoteTotals *)

\* the extra accusation option of a script, if it has one ("": it has none)
HumorousOptions == {"", "Nobody"}

\* keys a voteTotals object may have
VoteKeys == Characters \cup (HumorousOptions \ {""})

\* values of accusation.round in the records of a gameData prop, in tenths
VoteRounds == {50, 55}

\* gameData is null or has no players array
NoGameData == [hasPlayers |-> FALSE, players |-> <<>>]

\* the object {}: keys is the set of own keys, lists[k] the array under k
NoVotes == [keys |-> {}, lists |-> [k \in VoteKeys |-> <<>>]]

\* accusations.forEach(...) with the round filter left out
RECURSIVE countAccusations_anyRound(_, _, _, _)
countAccusations_anyRound(vt, username, accusations, i) ==
    IF i > Len(accusations) THEN vt
    ELSE LET acc == accusations[i]
         IN countAccusations_anyRound(
                IF acc.accusedCharacter # ""
                THEN [keys |-> vt.keys \cup {acc.accusedCharacter},
                      lists |-> [vt.lists EXCEPT ![acc.accusedCharacter] =
                                    Append(@, username)]]
                ELSE vt,
                username, accusations, i + 1)

\* accusations.forEach(accusation => { if (accusation.round === 5.5 &&
\* accusation.accusedCharacter) { ...; voteTotals[...].push(player.username) } })
RECURSIVE countAccusations(_, _, _, _)
countAccusations(vt, username, accusations, i) ==
    IF i > Len(accusations) THEN vt
    ELSE LET acc == accusations[i]
         IN countAccusations(
                IF acc.round = 55 /\ acc.accusedCharacter # ""
                THEN [keys |-> vt.keys \cup {acc.accusedCharacter},
                      lists |-> [vt.lists EXCEPT ![acc.accusedCharacter] =
                                    Append(@, username)]]
                ELSE vt,
                username, accusations, i + 1)

\* gameData.players.forEach(player => ...)
RECURSIVE countPlayers(_, _, _)
countPlayers(vt, ps, i) ==
    IF i > Len(ps) THEN vt
    ELSE countPlayers(countAccusations(vt, ps[i].username, ps[i].made, 1), ps, i + 1)

\* getAccusationVoteTotals(), humorousOption being what
\* gameScriptService.getHumorousAccusationOption returned
getAccusationVoteTotals(gd, humorousOption) ==
    IF ~gd.hasPlayers THEN NoVotes
    ELSE countPlayers(
             [keys |-> Characters \cup ({humorousOption} \ {""}),
              lists |-> [k \in VoteKeys |-> <<>>]],
             gd.players, 1)

\* GameView renders the vote totals of its gameData prop
GameView_getAccusationVoteTotals(humorousOption) ==
    /\ voteTotals' = getAccusationVoteTotals(gameData, humorousOption)
    /\ UNCHANGED <<store, calls, failures, readyCalls, now, gameData, others,
                   listener>>

\* accusation lists of at most MaxVoteRecords records
VoteRecords ==
    [round : VoteRounds, accusedCharacter : Accused \cup VoteKeys, timestamp : {0}]

VoteLists == UNION {[1..n -> VoteRecords] : n \in 0..MaxVoteRecords}

-----------------------------------------------------------------------------
(* subscribeToGame: snapshots, stripVolatileFields, handleUpdate *)

Fetches == 1..MaxFetches

Times == 0..MaxTime

\* getGameData returned null
NullData == [isNull |-> TRUE]

\* a destructured-away field
Stripped == -1

\* roundData as far as the key '5' goes: the entry of round 5 and, nested in
\* it under '5', what the paths `roundData.5.5` and
\* `roundData.5.5.completedAt` write for round 5.5
NoRoundData ==
    [startedAt |-> 0, completedAt |-> 0,
     sub |-> [has |-> FALSE, startedAt |-> 0, completedAt |-> 0]]

\* stripVolatileFields: updatedAt (createdAt, startedAt, completedAt) of the
\* root, lastActiveAt (updatedAt, createdAt) of each player, startedAt and
\* completedAt of each direct entry of roundData
stripVolatileFields(data) ==
    IF data.isNull THEN data
    ELSE [data EXCEPT
            !.updatedAt = Stripped,
            !.players = [u \in DOMAIN data.players |->
                            [data.players[u] EXCEPT !.lastActiveAt = Stripped]],
            !.roundData = [@ EXCEPT !.startedAt = Stripped,
                                    !.completedAt = Stripped]]

\* handleUpdate(data)
handleUpdate(data) ==
    IF stripVolatileFields(data) # lastData
    THEN /\ lastData' = stripVolatileFields(data)
         /\ delivered' = data
         /\ called' = TRUE
    ELSE UNCHANGED <<lastData, delivered, called>>

\* gameDoc._data of the session document; the store model keeps no
\* timestamps, they read as 0
gameDocData ==
    [status |-> status, currentRound |-> currentRound, gameState |-> gameState,
     accusations |-> gameAccusations, updatedAt |-> 0, roundData |-> NoRoundData]

\* the doc._data of the players collection
playersData ==
    [u \in players |->
        [characterName |-> characterName[u], roundStates |-> roundStates[u],
         readyStatus |-> readyStatus[u], made |-> made[u], lastActiveAt |-> 0]]

\* {...gameData, players}
Spread(g, ps) ==
    [isNull |-> FALSE, status |-> g.status, currentRound |-> g.currentRound,
     gameState |-> g.gameState, accusations |-> g.accusations,
     updatedAt |-> g.updatedAt, roundData |-> g.roundData, players |-> ps]

\* no session document read
NoGameDoc ==
    [status |-> "NONE", currentRound |-> 0, gameState |-> "NONE",
     accusations |-> <<>>, updatedAt |-> 0, roundData |-> NoRoundData]

NoFetch == [pc |-> "idle", game |-> NoGameDoc, data |-> NullData]

\* what the two listeners watch: the session document, the players collection
sessionDocument == [exists |-> gameExists, data |-> gameDocData]
playersCollection == [docs |-> playersData]

\* gameRef.onSnapshot(() => this.getGameData(gameId).then(handleUpdate)): the
\* listener fires for the session document as it is now
onSnapshot_game(f) ==
    /\ fetches[f].pc = "idle"
    /\ seen.game # sessionDocument
    /\ seen' = [seen EXCEPT !.game = sessionDocument]
    /\ fetches' = [fetches EXCEPT ![f].pc = "game"]
    /\ UNCHANGED <<store, calls, failures, readyCalls, now, gameData,
                   voteTotals, others, lastData, delivered, called>>

\* gameRef.collection('players').onSnapshot(...): the same for the players
onSnapshot_players(f) ==
    /\ fetches[f].pc = "idle"
    /\ seen.players # playersCollection
    /\ seen' = [seen EXCEPT !.players = playersCollection]
    /\ fetches' = [fetches EXCEPT ![f].pc = "game"]
    /\ UNCHANGED <<store, calls, failures, readyCalls, now, gameData,
                   voteTotals, others, lastData, delivered, called>>

\* the listener's getGameData: await gameRef.get(), null if the document does
\* not exist
subscribeToGame_getGame(f) ==
    /\ fetches[f].pc = "game"
    /\ fetches' = [fetches EXCEPT ![f] =
                      IF gameExists
                      THEN [pc |-> "players", game |-> gameDocData, data |-> NullData]
                      ELSE [pc |-> "then", game |-> NoGameDoc, data |-> NullData]]
    /\ UNCHANGED <<store, calls, failures, readyCalls, now, gameData,
                   voteTotals, others, seen, lastData, delivered, called>>

\* the listener's getGameData: await gameRef.collection('players').get(),
\* return {...gameData, players}
subscribeToGame_getPlayers(f) ==
    /\ fetches[f].pc = "players"
    /\ fetches' = [fetches EXCEPT ![f].pc = "then",
                                  ![f].data = Spread(fetches[f].game, playersData)]
    /\ UNCHANGED <<store, calls, failures, readyCalls, now, gameData,
                   voteTotals, others, seen, lastData, delivered, called>>

\* .then(handleUpdate)
subscribeToGame_then(f) ==
    /\ fetches[f].pc = "then"
    /\ handleUpdate(fetches[f].data)
    /\ fetches' = [fetches EXCEPT ![f] = NoFetch]
    /\ UNCHANGED <<store, calls, failures, readyCalls, now, gameData,
                   voteTotals, others, seen>>

\* snapshots getGameData returns for a session in round 5 or 5.5 with the
\* host as its player: in round 5 the entry of round 5 is open, in round 5.5
\* it is completed and the entry of round 5.5 is nested in it
FetchedSnapshots ==
    {Spread([status |-> "IN_PROGRESS", currentRound |-> r, gameState |-> "LOBBY",
             accusations |-> <<>>, updatedAt |-> t1,
             roundData |-> [startedAt |-> t2,
                            completedAt |-> IF r = 50 THEN 0 ELSE t3,
                            sub |-> [has |-> r = 55,
                                     startedAt |-> IF r = 50 THEN 0 ELSE t4,
                                     completedAt |-> 0]]],
            [u \in {hostUserId} |->
                [characterName |-> ch, roundStates |-> NoRoundStates,
                 readyStatus |-> "none", made |-> <<>>, lastActiveAt |-> t5]]) :
        r \in {50, 55}, t1 \in 1..MaxTime, t2 \in 1..MaxTime,
        t3 \in 1..MaxTime, t4 \in 1..MaxTime, ch \in Characters, t5 \in Times}

\* this.getGameData(gameId).then(handleUpdate) with the promise fulfilled by
\* data
subscribeToGame_handleUpdate(data) ==
    /\ handleUpdate(data)
    /\ UNCHANGED <<store, calls, failures, readyCalls, now, gameData,
                   voteTotals, others, fetches, seen>>

-----------------------------------------------------------------------------
Init ==
    /\ gameExists = FALSE
    /\ status = "NONE"
    /\ currentRound = 0
    /\ gameAccusations = <<>>
    /\ players = {}
    /\ roundStates = [u \in Users |-> NoRoundStates]
    /\ readyStatus = [u \in Users |-> "none"]
    /\ made = [u \in Users |-> <<>>]
    /\ characterName = [u \in Users |-> "null"]
    /\ calls = [c \in Calls |-> Idle]
    /\ failures = 0
    /\ readyCalls = 0
    /\ now = 0
    /\ gameData = NoGameData
    /\ voteTotals = NoVotes
    /\ games = {}
    /\ gameState = "NONE"
    /\ fetches = [f \in Fetches |-> NoFetch]
    /\ seen = [game |-> NullData, players |-> NullData]
    /\ lastData = NullData
    /\ delivered = NullData
    /\ called = FALSE

-----------------------------------------------------------------------------
(* Call bookkeeping *)

Begin(c, op, pc, user, r, accused) ==
    /\ calls[c].op = "idle"
    /\ \A d \in Calls : d < c => calls[d].op # "idle"
    /\ calls' = [calls EXCEPT ![c] = [op |-> op, pc |-> pc, user |-> user,
                                      r |-> r, ps |-> {}, accused |-> accused,
                                      ts |-> IF op = "submitAccusation"
                                             THEN now ELSE 0,
                                      character |->
                                          IF op = "submitAccusation"
                                          THEN characterName[user] ELSE "null",
                                      virtual |-> "none", gameId |-> ""]]

At(c, op, pc) == calls[c].op = op /\ calls[c].pc = pc

Goto(c, pc) == calls' = [calls EXCEPT ![c].pc = pc]

\* the promise of call c has settled; the caller continues
Return(c) ==
    /\ calls[c].pc \in {"done", "failed"}
    /\ calls' = [calls EXCEPT ![c] = Idle]
    /\ UNCHANGED <<store, failures, readyCalls, now, view, others>>

\* a store request of call c is rejected (store unreachable): the method's
\* catch block rethrows, nothing is undone
storeFailure(c) ==
    /\ failures < MaxFailures
    /\ calls[c].op # "idle"
    /\ calls[c].pc \notin {"done", "failed"}
    /\ Goto(c, "failed")
    /\ failures' = failures + 1
    /\ UNCHANGED <<store, readyCalls, now, view, others>>

-----------------------------------------------------------------------------
(* createGame / addPlayerToGame / joinGame *)

\* playerRef.set(playerData): the whole player document is (over)written
addPlayerToGame(u) ==
    /\ players' = players \cup {u}
    /\ roundStates' = [roundStates EXCEPT ![u] = NoRoundStates]
    /\ readyStatus' = [readyStatus EXCEPT ![u] = "none"]
    /\ made' = [made EXCEPT ![u] = <<>>]
    /\ characterName' = [characterName EXCEPT ![u] = "null"]

\* createGame up to gameRef.set(gameData); generateUniqueGameId returned an
\* id no session uses
createGame_set(c) ==
    /\ ~gameExists
    /\ \A d \in Calls : calls[d].op # "createGame"
    /\ Begin(c, "createGame", "addHost", hostUserId, 0, "Mustard")
    /\ gameExists' = TRUE
    /\ status' = "LOBBY"
    /\ currentRound' = 0
    /\ gameAccusations' = <<>>
    /\ gameState' = "LOBBY"
    /\ UNCHANGED <<players, roundStates, readyStatus, made, failures, readyCalls, now, view, games, characterName>>

\* the codes generateGameId can return: six characters of A-Z0-9, here three
\* of them
GameIds == {"AAAAAA", "AAAAAB", "AAAAAC"}

\* generateUniqueGameId(maxAttempts = 10), first iteration: attempt = 1,
\* gameId = this.generateGameId()
generateUniqueGameId_generateGameId(c, gameId) ==
    /\ calls[c].op = "idle"
    /\ \A d \in Calls : d < c => calls[d].op # "idle"
    /\ calls' = [calls EXCEPT ![c] =
                    [Idle EXCEPT !.op = "generateUniqueGameId", !.pc = "get",
                                 !.r = 1, !.gameId = gameId]]
    /\ UNCHANGED <<store, failures, readyCalls, now, view, others>>

\* generateUniqueGameId returning the candidate without looking at the
\* document it read
generateUniqueGameId_get_unchecked(c) ==
    /\ At(c, "generateUniqueGameId", "get")
    /\ Goto(c, "done")
    /\ UNCHANGED <<store, failures, readyCalls, now, view, others>>

\* generateUniqueGameId: await this.db.collection('games').doc(gameId).get()
\* and what follows it in the iteration. The read resolves (return the id if
\* the document does not exist, throw on the last attempt, else go round)
\* or is rejected (the catch rethrows on the last attempt, else goes round).
generateUniqueGameId_get(c) ==
    /\ At(c, "generateUniqueGameId", "get")
    /\ \/ calls' = [calls EXCEPT ![c].pc =
                        IF calls[c].gameId \notin games THEN "done"
                        ELSE IF calls[c].r = maxAttempts THEN "failed"
                        ELSE "next"]
       \/ calls' = [calls EXCEPT ![c].pc =
                        IF calls[c].r = maxAttempts THEN "failed" ELSE "next"]
    /\ UNCHANGED <<store, failures, readyCalls, now, view, others>>

\* generateUniqueGameId: attempt++, gameId = this.generateGameId()
generateUniqueGameId_next(c, gameId) ==
    /\ At(c, "generateUniqueGameId", "next")
    /\ calls' = [calls EXCEPT ![c].pc = "get", ![c].r = calls[c].r + 1,
                              ![c].gameId = gameId]
    /\ UNCHANGED <<store, failures, readyCalls, now, view, others>>

\* another client creates a session: set(gameData) on games/{gameId}
otherGame_set(gameId) ==
    /\ games' = games \cup {gameId}
    /\ UNCHANGED <<store, calls, failures, readyCalls, now, view, gameState>>

\* script ids a caller can pass: one the catalog loaded, the default value of
\* createGame's scriptId parameter, and the name of a property every object
\* inherits
ScriptIds == {"1", "opera_murder_mystery_v1", "toString"}

\* the ids loadScripts puts in this.gameScripts ('1', '2', '3', '5', '6'),
\* among ScriptIds
loadedScripts == {"1"}

\* a catalog that answers every id with a script
getGameScript_any(scriptId) == "script"

\* getGameScript: this.gameScripts[scriptId] on a plain object: a loaded
\* script, undefined, or an inherited property that has no gameFlow
getGameScript(scriptId) ==
    IF scriptId \in loadedScripts THEN "script"
    ELSE IF scriptId = "toString" THEN "inherited"
    ELSE "undefined"

\* createGame(hostUserId, hostUsername, scriptId) up to its first write:
\* gameScript undefined throws 'Invalid game script ID', an inherited
\* property throws on gameScript.gameFlow.maxPlayers; both are rethrown as
\* 'Failed to create game' before set(gameData)
createGame_getGameScript(c, scriptId) ==
    IF getGameScript(scriptId) = "script"
    THEN createGame_set(c)
    ELSE /\ Begin(c, "createGame", "failed", hostUserId, 0, "Mustard")
         /\ UNCHANGED <<store, failures, readyCalls, now, view, others>>

\* createGame: await this.addPlayerToGame(gameId, hostUserId, hostUsername, true)
createGame_addHost(c) ==
    /\ At(c, "createGame", "addHost")
    /\ addPlayerToGame(hostUserId)
    /\ Goto(c, "done")
    /\ UNCHANGED <<gameExists, status, currentRound, gameAccusations, failures, readyCalls, now, view, others>>

\* joinGame with the check for an existing player document left out
joinGame_read_always(c, u) ==
    /\ Begin(c, "joinGame",
             IF ~gameExists THEN "failed" ELSE "addPlayer",
             u, IF u \in players THEN 1 ELSE 0, "Mustard")
    /\ UNCHANGED <<store, failures, readyCalls, now, view, others>>

\* joinGame: the two reads (game document, player document); r is 1 when
\* playerDoc.exists
joinGame_read(c, u) ==
    /\ Begin(c, "joinGame",
             IF ~gameExists THEN "failed"
             ELSE IF u \in players THEN "done" ELSE "addPlayer",
             u, IF u \in players THEN 1 ELSE 0, "Mustard")
    /\ UNCHANGED <<store, failures, readyCalls, now, view, others>>

\* joinGame: await this.addPlayerToGame(gameId, userId, username, false)
joinGame_addPlayer(c) ==
    /\ At(c, "joinGame", "addPlayer")
    /\ addPlayerToGame(calls[c].user)
    /\ Goto(c, "done")
    /\ UNCHANGED <<gameExists, status, currentRound, gameAccusations, failures, readyCalls, now, view, others>>

\* removePlayerFromGame: playerRef.delete(), the document is gone
removePlayerFromGame(u) ==
    /\ players' = players \ {u}
    /\ roundStates' = [roundStates EXCEPT ![u] = NoRoundStates]
    /\ readyStatus' = [readyStatus EXCEPT ![u] = "none"]
    /\ made' = [made EXCEPT ![u] = <<>>]
    /\ characterName' = [characterName EXCEPT ![u] = "null"]

-----------------------------------------------------------------------------
(* assignCharacter / selectCharacter *)

\* assignCharacter: const gameData = await this.getGameData(gameId); a null
\* gameData makes gameData.gameScriptId throw
assignCharacter_read(c, u, ch) ==
    /\ Begin(c, "assignCharacter", IF gameExists THEN "update" ELSE "failed",
             u, 0, ch)
    /\ UNCHANGED <<store, failures, readyCalls, now, view, others>>

\* assignCharacter writing with set(..., {merge: true}), which creates a
\* missing player document
assignCharacter_update_upsert(c) ==
    /\ At(c, "assignCharacter", "update")
    /\ players' = players \cup {calls[c].user}
    /\ characterName' = [characterName EXCEPT ![calls[c].user] = calls[c].accused]
    /\ Goto(c, "done")
    /\ UNCHANGED <<gameExists, status, currentRound, gameAccusations,
                   roundStates, readyStatus, made, failures, readyCalls, now, view, others>>

\* assignCharacter: playerRef.update({characterName, ...}), rejected if the
\* player document does not exist
assignCharacter_update(c) ==
    /\ At(c, "assignCharacter", "update")
    /\ IF calls[c].user \in players
       THEN /\ characterName' = [characterName EXCEPT ![calls[c].user] = calls[c].accused]
            /\ Goto(c, "done")
       ELSE /\ Goto(c, "failed")
            /\ UNCHANGED characterName
    /\ UNCHANGED <<gameExists, status, currentRound, gameAccusations, players,
                   roundStates, readyStatus, made, failures, readyCalls, now, view, others>>

-----------------------------------------------------------------------------
(* Views: handleSelectCharacter, handleAddVirtualPlayer *)

\* p.userId.startsWith('player_')
isVirtual(u) == u \in VirtualUsers

\* `player_${charName}` for the characters that get a virtual player here
virtualUserId == [ch \in {"Mustard"} |-> "player_Mustard"]

\* gameData.players.find(p => p.characterName === charName &&
\* p.userId.startsWith('player_')), "none" if there is none
assignedVirtual(ch) ==
    IF \E v \in players : isVirtual(v) /\ characterName[v] = ch
    THEN CHOOSE v \in players : isVirtual(v) /\ characterName[v] = ch
    ELSE "none"

\* gameData.players.find(p => p.characterName === charName &&
\* !p.userId.startsWith('player_')) is found
assignedReal(ch) == \E p \in players : ~isVirtual(p) /\ characterName[p] = ch

\* CharacterSelectionView: the player presses Play on a character (the button
\* is disabled when a real player and no virtual player holds it);
\* handleSelectCharacter looks up the virtual player holding the character
handleSelectCharacter_press(c, u, ch) ==
    /\ u \in players
    /\ assignedVirtual(ch) # "none" \/ ~assignedReal(ch)
    /\ calls[c].op = "idle"
    /\ \A d \in Calls : d < c => calls[d].op # "idle"
    /\ calls' = [calls EXCEPT ![c] =
                    [Idle EXCEPT !.op = "handleSelectCharacter",
                                 !.pc = IF assignedVirtual(ch) # "none"
                                        THEN "remove" ELSE "select",
                                 !.user = u, !.accused = ch,
                                 !.virtual = assignedVirtual(ch)]]
    /\ UNCHANGED <<store, failures, readyCalls, now, view, others>>

\* handleSelectCharacter: await removePlayerFromGame(gameId,
\* assignedVirtual.userId), then the 500 ms wait
handleSelectCharacter_remove(c) ==
    /\ At(c, "handleSelectCharacter", "remove")
    /\ removePlayerFromGame(calls[c].virtual)
    /\ Goto(c, "select")
    /\ UNCHANGED <<gameExists, status, currentRound, gameAccusations,
                   failures, readyCalls, now, view, others>>

\* handleSelectCharacter: await selectCharacter(gameId, userId, charName); a
\* rejection is caught and reported, and the handler ends
handleSelectCharacter_select(c) ==
    /\ At(c, "handleSelectCharacter", "select")
    /\ IF calls[c].user \in players
       THEN /\ characterName' = [characterName EXCEPT ![calls[c].user] = calls[c].accused]
            /\ Goto(c, "onSelect")
       ELSE /\ Goto(c, "failed")
            /\ UNCHANGED characterName
    /\ UNCHANGED <<gameExists, status, currentRound, gameAccusations, players,
                   roundStates, readyStatus, made, failures, readyCalls, now, view, others>>

\* App onSelectCharacter: getGameData; joinGame if the player is not in the
\* session; selectCharacter again
handleSelectCharacter_onSelect(c) ==
    /\ At(c, "handleSelectCharacter", "onSelect")
    /\ IF calls[c].user \in players
       THEN /\ characterName' = [characterName EXCEPT ![calls[c].user] = calls[c].accused]
            /\ UNCHANGED <<players, roundStates, readyStatus, made>>
            /\ Goto(c, "done")
       ELSE /\ addPlayerToGame(calls[c].user)
            /\ UNCHANGED calls
    /\ UNCHANGED <<gameExists, status, currentRound, gameAccusations,
                   failures, readyCalls, now, view, others>>

\* Lobby: the host adds a virtual player for a character no player holds;
\* handleAddVirtualPlayer: await joinGame(gameId, userIdVirtual, charName)
\* up to its reads
handleAddVirtualPlayer_press(c, ch) ==
    /\ hostUserId \in players
    /\ \A p \in players : characterName[p] # ch
    /\ Begin(c, "handleAddVirtualPlayer",
             IF ~gameExists THEN "failed"
             ELSE IF virtualUserId[ch] \in players THEN "check" ELSE "addPlayer",
             virtualUserId[ch], 0, ch)
    /\ UNCHANGED <<store, failures, readyCalls, now, view, others>>

\* handleAddVirtualPlayer: joinGame's addPlayerToGame
handleAddVirtualPlayer_addPlayer(c) ==
    /\ At(c, "handleAddVirtualPlayer", "addPlayer")
    /\ addPlayerToGame(calls[c].user)
    /\ Goto(c, "check")
    /\ UNCHANGED <<gameExists, status, currentRound, gameAccusations,
                   failures, readyCalls, now, view, others>>

\* handleAddVirtualPlayer: getGameData, then the player document is read
\* and playerDoc.exists() evaluated: where exists is a boolean the call
\* throws and the inner catch goes on; where it is a method, a missing
\* document is written again with set(playerData)
handleAddVirtualPlayer_check(c) ==
    /\ At(c, "handleAddVirtualPlayer", "check")
    /\ \/ UNCHANGED <<players, roundStates, readyStatus, made, characterName>>
       \/ /\ calls[c].user \notin players
          /\ addPlayerToGame(calls[c].user)
    /\ Goto(c, "select")
    /\ UNCHANGED <<gameExists, status, currentRound, gameAccusations,
                   failures, readyCalls, now, view, others>>

\* handleAddVirtualPlayer: await selectCharacter(gameId, userIdVirtual,
\* charName); a rejection is caught and reported
handleAddVirtualPlayer_select(c) ==
    /\ At(c, "handleAddVirtualPlayer", "select")
    /\ IF calls[c].user \in players
       THEN /\ characterName' = [characterName EXCEPT ![calls[c].user] = calls[c].accused]
            /\ Goto(c, "done")
       ELSE /\ Goto(c, "failed")
            /\ UNCHANGED characterName
    /\ UNCHANGED <<gameExists, status, currentRound, gameAccusations, players,
                   roundStates, readyStatus, made, failures, readyCalls, now, view, others>>

-----------------------------------------------------------------------------
(* startGame *)

\* startGame: gameRef.get() and the players read with the minPlayers check
startGame_read(c) ==
    /\ Begin(c, "startGame",
             IF ~gameExists THEN "failed"
             ELSE IF Cardinality(players) < minPlayers THEN "failed"
             ELSE "update",
             hostUserId, currentRound, "Mustard")
    /\ UNCHANGED <<store, failures, readyCalls, now, view, others>>

\* startGame: gameRef.update({status: 'IN_PROGRESS', currentRound: 1, ...})
startGame_update(c) ==
    /\ At(c, "startGame", "update")
    /\ status' = "IN_PROGRESS"
    /\ currentRound' = 10
    /\ Goto(c, "done")
    /\ UNCHANGED <<gameExists, gameAccusations, players, roundStates,
                   readyStatus, made, failures, readyCalls, now, view, others, characterName>>

\* App: canStartGame = isHost() && allPlayersJoined && allCharactersAssigned,
\* on the session as the host's client sees it
canStartGame ==
    /\ gameExists
    /\ hostUserId \in players
    /\ Cardinality(players) >= minPlayers
    /\ \A p \in players : characterName[p] # "null"

\* Lobby: the Start Game button is enabled by canStartGame; handleStartGame
\* calls startGame, which begins with its reads
handleStartGame(c) ==
    /\ canStartGame
    /\ startGame_read(c)

-----------------------------------------------------------------------------
(* advanceRound *)

\* advanceRound: gameRef.get(); const currentRound = gameData.currentRound
advanceRound_read(c) ==
    /\ Begin(c, "advanceRound",
             IF ~gameExists THEN "failed" ELSE "update",
             hostUserId, currentRound, "Mustard")
    /\ UNCHANGED <<store, failures, readyCalls, now, view, others>>

\* advanceRound: the gameRef.update that writes currentRound (either the
\* round-0 special case, which returns, or currentRound: nextRound)
advanceRound_update(c) ==
    /\ At(c, "advanceRound", "update")
    /\ IF calls[c].r = 0
       THEN /\ currentRound' = 10
            /\ Goto(c, "done")
       ELSE /\ nextRound(calls[c].r) <= MaxRound
            /\ currentRound' = nextRound(calls[c].r)
            /\ Goto(c, "getPlayers")
    /\ UNCHANGED <<gameExists, status, gameAccusations, players, roundStates,
                   readyStatus, made, failures, readyCalls, now, view, others, characterName>>

\* advanceRound: const playersSnapshot = await gameRef.collection('players').get()
advanceRound_getPlayers(c) ==
    /\ At(c, "advanceRound", "getPlayers")
    /\ calls' = [calls EXCEPT ![c].ps = players, ![c].pc = "commit"]
    /\ UNCHANGED <<store, failures, readyCalls, now, view, others>>

\* advanceRound: await batch.commit() of the roundStates.${nextRound} resets;
\* the batch is rejected as a whole if one of its documents is gone
advanceRound_commit(c) ==
    /\ At(c, "advanceRound", "commit")
    /\ IF calls[c].ps \subseteq players
       THEN /\ roundStates' =
                 [u \in Users |->
                    IF u \in calls[c].ps
                    THEN SetRoundState(roundStates[u], nextRound(calls[c].r), FALSE)
                    ELSE roundStates[u]]
            /\ Goto(c, IF nextRound(calls[c].r) = 70 THEN "complete" ELSE "done")
       ELSE /\ Goto(c, "failed")
            /\ UNCHANGED roundStates
    /\ UNCHANGED <<gameExists, status, currentRound, gameAccusations, players,
                   readyStatus, made, failures, readyCalls, now, view, others, characterName>>

\* advanceRound_complete without the update that sets status COMPLETED
advanceRound_complete_skip(c) ==
    /\ At(c, "advanceRound", "complete")
    /\ Goto(c, "done")
    /\ UNCHANGED <<store, failures, readyCalls, now, view, others>>

\* advanceRound: if (nextRound === 7) gameRef.update({status: 'COMPLETED', ...})
advanceRound_complete(c) ==
    /\ At(c, "advanceRound", "complete")
    /\ status' = "COMPLETED"
    /\ gameState' = "COMPLETED"
    /\ Goto(c, "done")
    /\ UNCHANGED <<gameExists, currentRound, gameAccusations, players,
                   roundStates, readyStatus, made, failures, readyCalls, now, view, games, characterName>>

-----------------------------------------------------------------------------
(* softDeleteGame *)

\* softDeleteGame(gameId, userId): gameRef.get(), 'Game not found', 'Only
\* the host can delete this game'
softDeleteGame_read(c, u) ==
    /\ Begin(c, "softDeleteGame",
             IF ~gameExists THEN "failed"
             ELSE IF hostUserId # u THEN "failed"
             ELSE "update",
             u, 0, "Mustard")
    /\ UNCHANGED <<store, failures, readyCalls, now, view, others>>

\* a delete that erases the session document and its players
softDeleteGame_update_erase(c) ==
    /\ At(c, "softDeleteGame", "update")
    /\ gameExists' = FALSE
    /\ players' = {}
    /\ gameState' = "DELETED"
    /\ Goto(c, "users")
    /\ UNCHANGED <<status, currentRound, gameAccusations, roundStates,
                   readyStatus, made, characterName, failures, readyCalls,
                   now, view, games>>

\* softDeleteGame: gameRef.update({deletedAt: now, gameState: 'DELETED',
\* updatedAt: now})
softDeleteGame_update(c) ==
    /\ At(c, "softDeleteGame", "update")
    /\ gameState' = "DELETED"
    /\ Goto(c, "users")
    /\ UNCHANGED <<store, failures, readyCalls, now, view, games>>

\* softDeleteGame: the loop over the users collection marks each
\* users/{userId}/games/{gameId} record deleted; these records are not
\* part of the session or its players
softDeleteGame_users(c) ==
    /\ At(c, "softDeleteGame", "users")
    /\ Goto(c, "done")
    /\ UNCHANGED <<store, failures, readyCalls, now, view, others>>

-----------------------------------------------------------------------------
(* updatePlayerReady *)

\* updatePlayerReady(gameId, userId, readyStatus, round): playerRef.update of
\* roundStates.${round}, or of the legacy readyStatus field when round is
\* falsy (null or 0); update of a missing document is rejected. The
\* following gameRef.update writes updatedAt only.
updatePlayerReady_update(u, ready, round) ==
    /\ u \in players
    /\ IF round # 0
       THEN /\ roundStates' = [roundStates EXCEPT
                                 ![u] = SetRoundState(@, round, ready)]
            /\ UNCHANGED readyStatus
       ELSE /\ readyStatus' = [readyStatus EXCEPT
                                 ![u] = IF ready THEN "true" ELSE "false"]
            /\ UNCHANGED roundStates
    /\ UNCHANGED <<gameExists, status, currentRound, gameAccusations, players,
                   made, calls, failures, now, view, others, characterName>>

\* one of the at most MaxReadyCalls calls of updatePlayerReady in a behaviour
updatePlayerReady(u, ready, round) ==
    /\ readyCalls < MaxReadyCalls
    /\ readyCalls' = readyCalls + 1
    /\ updatePlayerReady_update(u, ready, round)

\* GameView handleSetPlayerReady(readyStatus): updatePlayerReady with
\* roundToUpdate = gameData?.currentRound, the marker as the client sees it
handleSetPlayerReady(u, ready) == updatePlayerReady(u, ready, currentRound)

-----------------------------------------------------------------------------
(* submitAccusation *)

\* the millisecond clock read by Date.now() advances
Tick ==
    /\ now < MaxNow
    /\ now' = now + 1
    /\ UNCHANGED <<store, calls, failures, readyCalls, view, others>>

\* submitAccusation: playerRef.get(); 'Player not found' if it does not exist;
\* const playerData = playerDoc.data(); const currentTimestamp = Date.now()
submitAccusation_read(c, u, accused) ==
    /\ Len(made[u]) < MaxAccusations
    /\ Begin(c, "submitAccusation",
             IF u \in players THEN "updatePlayer" ELSE "failed",
             u, 0, accused)
    /\ UNCHANGED <<store, failures, readyCalls, now, view, others>>

\* submitAccusation_updatePlayer with the player's list overwritten by the
\* new record instead of extended
submitAccusation_updatePlayer_overwrite(c) ==
    /\ At(c, "submitAccusation", "updatePlayer")
    /\ IF calls[c].user \in players
       THEN /\ made' = [made EXCEPT ![calls[c].user] =
                               <<[round |-> 55,
                                  accusedCharacter |-> calls[c].accused,
                                  timestamp |-> calls[c].ts]>>]
            /\ Goto(c, "updateGame")
       ELSE /\ Goto(c, "failed")
            /\ UNCHANGED made
    /\ UNCHANGED <<gameExists, status, currentRound, gameAccusations, players,
                   roundStates, readyStatus, failures, readyCalls, now, view, others, characterName>>

\* submitAccusation: playerRef.update({'accusations.made': arrayUnion({round: 5.5, ...})})
submitAccusation_updatePlayer(c) ==
    /\ At(c, "submitAccusation", "updatePlayer")
    /\ IF calls[c].user \in players
       THEN /\ made' = [made EXCEPT ![calls[c].user] =
                               arrayUnion(@, [round |-> 55,
                                              accusedCharacter |-> calls[c].accused,
                                              timestamp |-> calls[c].ts])]
            /\ Goto(c, "updateGame")
       ELSE /\ Goto(c, "failed")
            /\ UNCHANGED made
    /\ UNCHANGED <<gameExists, status, currentRound, gameAccusations, players,
                   roundStates, readyStatus, failures, readyCalls, now, view, others, characterName>>

\* submitAccusation: gameRef.update({'accusations.accusations': arrayUnion({...})})
submitAccusation_updateGame(c) ==
    /\ At(c, "submitAccusation", "updateGame")
    /\ gameAccusations' = arrayUnion(gameAccusations,
                                     [accuserId |-> calls[c].user,
                                      accuserCharacter |-> calls[c].character,
                                      accusedCharacter |-> calls[c].accused,
                                      timestamp |-> calls[c].ts])
    /\ Goto(c, "done")
    /\ UNCHANGED <<gameExists, status, currentRound, players, roundStates,
                   readyStatus, made, failures, readyCalls, now, view, others, characterName>>

-----------------------------------------------------------------------------
(* Playing a session: the players' and the host's handlers *)

\* IntroductionView / GameView: the "I'm Ready" button of a player who is
\* shown as not ready calls handleSetPlayerReady(!isReady), which writes the
\* entry of the round on screen (1 in IntroductionView, gameData.currentRound
\* in GameView)
handleSetPlayerReady_press(u) ==
    /\ status = "IN_PROGRESS"
    /\ RoundState(roundStates[u], currentRound) # "true"
    /\ updatePlayerReady_update(u, TRUE, currentRound)
    /\ UNCHANGED readyCalls

\* GameView handleSubmitAccusation: in the accusation round a player who has
\* not accused yet submits the selected accusation; the handler awaits
\* submitAccusation, so a player has one submission in flight at a time
handleSubmitAccusation(c, u, accused) ==
    /\ status = "IN_PROGRESS"
    /\ currentRound = 55
    /\ ~hasPlayerAccused(made[u])
    /\ \A d \in Calls : ~(calls[d].op = "submitAccusation" /\ calls[d].user = u)
    /\ submitAccusation_read(c, u, accused)

\* IntroductionView / GameView: the host's advance button is rendered while
\* currentRound !== 7 and is enabled by allAccusationsSubmitted in round 5.5
\* and by allPlayersReadyForRound() in every other round; onAdvanceToNextRound
\* calls advanceRound, which begins with its read. The host's client issues
\* its calls one after the other.
onAdvanceToNextRound(c) ==
    /\ status = "IN_PROGRESS"
    /\ currentRound # 70
    /\ \A d \in Calls : calls[d].op # "advanceRound"
    /\ IF currentRound = 55
       THEN allAccusationsSubmitted(players, made)
       ELSE allPlayersReadyForRound(players, roundStates, currentRound)
    /\ advanceRound_read(c)

-----------------------------------------------------------------------------
(* getGameData *)

\* getGameData: const gameDoc = await gameRef.get(); null if it does not exist
getGameData_game(c) ==
    /\ Begin(c, "getGameData", IF gameExists THEN "getPlayers" ELSE "done",
             hostUserId, currentRound, "Mustard")
    /\ UNCHANGED <<store, failures, readyCalls, now, view, others>>

\* getGameData: the players read; the call returns {...gameData, players}
getGameData_players(c) ==
    /\ At(c, "getGameData", "getPlayers")
    /\ calls' = [calls EXCEPT ![c].ps = players, ![c].pc = "done"]
    /\ UNCHANGED <<store, failures, readyCalls, now, view, others>>

-----------------------------------------------------------------------------
\* no other service call is suspended at an await
Alone(c) == \A d \in Calls \ {c} : calls[d].op = "idle"

\* One client issuing its service calls one after the other, while players
\* set their readiness at any time; every store request is served. Each
\* player accuses at most once here; SpecAccuse explores the accusations.
Next ==
    \/ \E c \in Calls : Alone(c) /\ createGame_set(c)
    \/ \E c \in Calls : Alone(c) /\ createGame_addHost(c)
    \/ \E c \in Calls, u \in RealUsers : Alone(c) /\ joinGame_read(c, u)
    \/ \E c \in Calls : Alone(c) /\ joinGame_addPlayer(c)
    \/ \E c \in Calls : Alone(c) /\ startGame_read(c)
    \/ \E c \in Calls : Alone(c) /\ startGame_update(c)
    \/ \E c \in Calls : Alone(c) /\ advanceRound_read(c)
    \/ \E c \in Calls : Alone(c) /\ advanceRound_update(c)
    \/ \E c \in Calls : Alone(c) /\ advanceRound_getPlayers(c)
    \/ \E c \in Calls : Alone(c) /\ advanceRound_commit(c)
    \/ \E c \in Calls : Alone(c) /\ advanceRound_complete(c)
    \/ \E u \in RealUsers, ready \in BOOLEAN, round \in RoundSet :
          updatePlayerReady(u, ready, round)
    \/ \E c \in Calls, u \in RealUsers :
          Alone(c) /\ made[u] = <<>> /\ submitAccusation_read(c, u, "Mustard")
    \/ \E c \in Calls : Alone(c) /\ submitAccusation_updatePlayer(c)
    \/ \E c \in Calls : Alone(c) /\ submitAccusation_updateGame(c)
    \/ \E c \in Calls : Alone(c) /\ getGameData_game(c)
    \/ \E c \in Calls : Alone(c) /\ getGameData_players(c)
    \/ \E c \in Calls : Alone(c) /\ Return(c)

Spec == Init /\ [][Next]_vars

\* One client issuing the session's lifecycle calls one after the other over
\* a store that may reject a request.
NextFail ==
    \/ \E c \in Calls : Alone(c) /\ createGame_set(c)
    \/ \E c \in Calls : Alone(c) /\ createGame_addHost(c)
    \/ \E c \in Calls, u \in RealUsers : Alone(c) /\ joinGame_read(c, u)
    \/ \E c \in Calls : Alone(c) /\ joinGame_addPlayer(c)
    \/ \E c \in Calls : Alone(c) /\ startGame_read(c)
    \/ \E c \in Calls : Alone(c) /\ startGame_update(c)
    \/ \E c \in Calls : Alone(c) /\ advanceRound_read(c)
    \/ \E c \in Calls : Alone(c) /\ advanceRound_update(c)
    \/ \E c \in Calls : Alone(c) /\ advanceRound_getPlayers(c)
    \/ \E c \in Calls : Alone(c) /\ advanceRound_commit(c)
    \/ \E c \in Calls : Alone(c) /\ advanceRound_complete(c)
    \/ \E c \in Calls : Alone(c) /\ storeFailure(c)
    \/ \E c \in Calls : Alone(c) /\ Return(c)

SpecFail == Init /\ [][NextFail]_vars

\* Several clients: service calls overlap at their awaits, explored over the
\* first rounds of a session.
NextConc ==
    \/ \E c \in Calls : createGame_set(c)
    \/ \E c \in Calls : createGame_addHost(c)
    \/ \E c \in Calls, u \in RealUsers : joinGame_read(c, u)
    \/ \E c \in Calls : joinGame_addPlayer(c)
    \/ \E c \in Calls : startGame_read(c)
    \/ \E c \in Calls : startGame_update(c)
    \/ \E c \in Calls : advanceRound_read(c)
    \/ \E c \in Calls : advanceRound_update(c) /\ currentRound' <= MaxRaceRound
    \/ \E c \in Calls : advanceRound_getPlayers(c)
    \/ \E c \in Calls : advanceRound_commit(c)
    \/ \E c \in Calls : getGameData_game(c)
    \/ \E c \in Calls : getGameData_players(c)
    \/ \E c \in Calls : Return(c)

SpecConc == Init /\ [][NextConc]_vars

\* Players of a session submitting accusations, their submitAccusation calls
\* overlapping, while the millisecond clock advances at any time.
NextAccuse ==
    \/ \E c \in Calls : Alone(c) /\ createGame_set(c)
    \/ \E c \in Calls : Alone(c) /\ createGame_addHost(c)
    \/ \E c \in Calls, u \in RealUsers : Alone(c) /\ joinGame_read(c, u)
    \/ \E c \in Calls : Alone(c) /\ joinGame_addPlayer(c)
    \/ \E c \in Calls, u \in RealUsers, a \in Accused :
          submitAccusation_read(c, u, a)
    \/ \E c \in Calls : submitAccusation_updatePlayer(c)
    \/ \E c \in Calls : submitAccusation_updateGame(c)
    \/ \E c \in Calls : Return(c)
    \/ Tick

SpecAccuse == Init /\ [][NextAccuse]_vars

\* Several clients joining a session, choosing characters and starting the
\* game, their service calls overlapping.
NextJoin ==
    \/ \E c \in Calls : createGame_set(c)
    \/ \E c \in Calls : createGame_addHost(c)
    \/ \E c \in Calls, u \in Users : joinGame_read(c, u)
    \/ \E c \in Calls : joinGame_addPlayer(c)
    \/ \E c \in Calls, u \in Users, ch \in Characters : assignCharacter_read(c, u, ch)
    \/ \E c \in Calls : assignCharacter_update(c)
    \/ \E c \in Calls : startGame_read(c)
    \/ \E c \in Calls : startGame_update(c)
    \/ \E c \in Calls : Return(c)

SpecJoin == Init /\ [][NextJoin]_vars

\* Code generation by overlapping calls while other clients create sessions
NextGenId ==
    \/ \E c \in Calls, gameId \in GameIds : generateUniqueGameId_generateGameId(c, gameId)
    \/ \E c \in Calls : generateUniqueGameId_get(c)
    \/ \E c \in Calls, gameId \in GameIds : generateUniqueGameId_next(c, gameId)
    \/ \E gameId \in GameIds : otherGame_set(gameId)
    \/ \E c \in Calls : Return(c)

SpecGenId == Init /\ [][NextGenId]_vars

\* the event loop runs every settled read's continuation
SpecGenIdFair ==
    /\ SpecGenId
    /\ \A c \in Calls : WF_vars(generateUniqueGameId_get(c))
    /\ \A c \in Calls : WF_vars(\E gameId \in GameIds : generateUniqueGameId_next(c, gameId))

\* A session from creation into its first round, with soft deletes asked for
\* by the host and by another player, all calls overlapping
NextDelete ==
    \/ \E c \in Calls : createGame_set(c)
    \/ \E c \in Calls : createGame_addHost(c)
    \/ \E c \in Calls, u \in RealUsers : joinGame_read(c, u)
    \/ \E c \in Calls : joinGame_addPlayer(c)
    \/ \E c \in Calls : startGame_read(c)
    \/ \E c \in Calls : startGame_update(c)
    \/ \E c \in Calls, u \in RealUsers : softDeleteGame_read(c, u)
    \/ \E c \in Calls : softDeleteGame_update(c)
    \/ \E c \in Calls : softDeleteGame_users(c)
    \/ \E c \in Calls : Return(c)

SpecDelete == Init /\ [][NextDelete]_vars

\* A subscribed client while a session is created, joined and started from
\* the lobby; the service calls run one after the other and write finitely
\* often, the listeners' reads interleave with them and with each other
NextSubscribe ==
    \/ \E c \in Calls : Alone(c) /\ createGame_set(c)
    \/ \E c \in Calls : Alone(c) /\ createGame_addHost(c)
    \/ \E c \in Calls : Alone(c) /\ joinGame_read(c, "p1")
    \/ \E c \in Calls : Alone(c) /\ joinGame_addPlayer(c)
    \/ \E c \in Calls : Alone(c) /\ status = "LOBBY" /\ startGame_read(c)
    \/ \E c \in Calls : Alone(c) /\ startGame_update(c)
    \/ \E c \in Calls : Return(c)
    \/ \E f \in Fetches : onSnapshot_game(f)
    \/ \E f \in Fetches : onSnapshot_players(f)
    \/ \E f \in Fetches : subscribeToGame_getGame(f)
    \/ \E f \in Fetches : subscribeToGame_getPlayers(f)
    \/ \E f \in Fetches : subscribeToGame_then(f)

\* every listener fires and every read of the store is answered
SpecSubscribe ==
    /\ Init /\ [][NextSubscribe]_vars
    /\ WF_vars(\E f \in Fetches : onSnapshot_game(f))
    /\ WF_vars(\E f \in Fetches : onSnapshot_players(f))
    /\ \A f \in Fetches : WF_vars(subscribeToGame_getGame(f))
    /\ \A f \in Fetches : WF_vars(subscribeToGame_getPlayers(f))
    /\ \A f \in Fetches : WF_vars(subscribeToGame_then(f))

\* The subscriber's handleUpdate fed with any sequence of fetched snapshots
NextHandle ==
    \E data \in FetchedSnapshots \cup {NullData} : subscribeToGame_handleUpdate(data)

SpecHandle == Init /\ [][NextHandle]_vars

\* The lobby up to the start of the game: joins and character assignments
\* by any identity, the host's Start Game button; all calls overlapping
NextStart ==
    \/ \E c \in Calls : createGame_set(c)
    \/ \E c \in Calls : createGame_addHost(c)
    \/ \E c \in Calls, u \in Users : joinGame_read(c, u)
    \/ \E c \in Calls : joinGame_addPlayer(c)
    \/ \E c \in Calls, u \in Users, ch \in Characters : assignCharacter_read(c, u, ch)
    \/ \E c \in Calls : assignCharacter_update(c)
    \/ \E c \in Calls : handleStartGame(c)
    \/ \E c \in Calls : startGame_update(c)
    \/ \E c \in Calls : Return(c)

SpecStart == Init /\ [][NextStart]_vars

\* A session played through its rounds by one host, while the players use
\* the ready button of GameView at any time, also between the awaits of
\* advanceRound
NextReady ==
    \/ \E c \in Calls : Alone(c) /\ createGame_set(c)
    \/ \E c \in Calls : Alone(c) /\ createGame_addHost(c)
    \/ \E c \in Calls, u \in RealUsers : Alone(c) /\ joinGame_read(c, u)
    \/ \E c \in Calls : Alone(c) /\ joinGame_addPlayer(c)
    \/ \E c \in Calls : Alone(c) /\ startGame_read(c)
    \/ \E c \in Calls : Alone(c) /\ startGame_update(c)
    \/ \E c \in Calls : Alone(c) /\ advanceRound_read(c)
    \/ \E c \in Calls : Alone(c) /\ advanceRound_update(c)
    \/ \E c \in Calls : Alone(c) /\ advanceRound_getPlayers(c)
    \/ \E c \in Calls : Alone(c) /\ advanceRound_commit(c)
    \/ \E c \in Calls : Alone(c) /\ advanceRound_complete(c)
    \/ \E u \in RealUsers, ready \in BOOLEAN : handleSetPlayerReady(u, ready)
    \/ \E c \in Calls : Alone(c) /\ Return(c)

SpecReady == Init /\ [][NextReady]_vars

\* usernames the onboarding input accepts (up to 30 characters of letters,
\* digits, space, '-', '_', '.'); the username is the user's identity
Usernames == {"host", "p1", "player_Mustard"}

\* A session joined only by real users under their usernames, who choose
\* characters in CharacterSelectionView; no virtual player is added
NextNames ==
    \/ \E c \in Calls : Alone(c) /\ createGame_set(c)
    \/ \E c \in Calls : Alone(c) /\ createGame_addHost(c)
    \/ \E c \in Calls, u \in Usernames : Alone(c) /\ joinGame_read(c, u)
    \/ \E c \in Calls : Alone(c) /\ joinGame_addPlayer(c)
    \/ \E c \in Calls, u \in Usernames, ch \in Characters :
          handleSelectCharacter_press(c, u, ch)
    \/ \E c \in Calls : handleSelectCharacter_remove(c)
    \/ \E c \in Calls : handleSelectCharacter_select(c)
    \/ \E c \in Calls : handleSelectCharacter_onSelect(c)
    \/ \E c \in Calls : Return(c)

SpecNames == Init /\ [][NextNames]_vars

\* A session is created, joined and started, and then played: every player
\* marks itself ready for the round on screen and accuses in round 5.5, the
\* host advances when its button is enabled. Nobody joins after the start.
NextPlay ==
    \/ \E c \in Calls : Alone(c) /\ createGame_set(c)
    \/ \E c \in Calls : Alone(c) /\ createGame_addHost(c)
    \/ \E c \in Calls, u \in RealUsers :
          Alone(c) /\ status = "LOBBY" /\ joinGame_read(c, u)
    \/ \E c \in Calls : Alone(c) /\ joinGame_addPlayer(c)
    \/ \E c \in Calls : Alone(c) /\ status = "LOBBY" /\ startGame_read(c)
    \/ \E c \in Calls : Alone(c) /\ startGame_update(c)
    \/ \E u \in RealUsers : handleSetPlayerReady_press(u)
    \/ \E c \in Calls, u \in RealUsers, accused \in Characters :
          handleSubmitAccusation(c, u, accused)
    \/ \E c \in Calls : submitAccusation_updatePlayer(c)
    \/ \E c \in Calls : submitAccusation_updateGame(c)
    \/ \E c \in Calls : onAdvanceToNextRound(c)
    \/ \E c \in Calls : advanceRound_update(c)
    \/ \E c \in Calls : advanceRound_getPlayers(c)
    \/ \E c \in Calls : advanceRound_commit(c)
    \/ \E c \in Calls : advanceRound_complete(c)
    \/ \E c \in Calls : Return(c)

SpecPlay == Init /\ [][NextPlay]_vars

\* SpecPlay where every player keeps pressing its ready button and submitting
\* its accusation, the host keeps pressing its advance button, and every
\* call in flight continues (the store answers every request)
SpecPlayFair ==
    /\ SpecPlay
    /\ \A u \in RealUsers : WF_vars(handleSetPlayerReady_press(u))
    /\ \A u \in RealUsers :
          WF_vars(\E c \in Calls, accused \in Characters :
                     handleSubmitAccusation(c, u, accused))
    /\ WF_vars(\E c \in Calls : onAdvanceToNextRound(c))
    /\ \A c \in Calls :
          /\ WF_vars(submitAccusation_updatePlayer(c))
          /\ WF_vars(submitAccusation_updateGame(c))
          /\ WF_vars(advanceRound_update(c))
          /\ WF_vars(advanceRound_getPlayers(c))
          /\ WF_vars(advanceRound_commit(c))
          /\ WF_vars(advanceRound_complete(c))
          /\ WF_vars(Return(c))

\* Sessions created with any script id, joins and character assignments,
\* all calls overlapping
NextCreate ==
    \/ \E c \in Calls, scriptId \in ScriptIds : createGame_getGameScript(c, scriptId)
    \/ \E c \in Calls : createGame_addHost(c)
    \/ \E c \in Calls, u \in RealUsers : joinGame_read(c, u)
    \/ \E c \in Calls : joinGame_addPlayer(c)
    \/ \E c \in Calls, u \in RealUsers, ch \in Characters : assignCharacter_read(c, u, ch)
    \/ \E c \in Calls : assignCharacter_update(c)
    \/ \E c \in Calls : Return(c)

SpecCreate == Init /\ [][NextCreate]_vars

\* The lobby of a session: real players join one after the other, then
\* choose characters and the host adds virtual players, their handlers
\* overlapping.
NextSelect ==
    \/ \E c \in Calls : Alone(c) /\ createGame_set(c)
    \/ \E c \in Calls : Alone(c) /\ createGame_addHost(c)
    \/ \E c \in Calls, u \in RealUsers : Alone(c) /\ joinGame_read(c, u)
    \/ \E c \in Calls : Alone(c) /\ joinGame_addPlayer(c)
    \/ \E c \in Calls, u \in RealUsers, ch \in Characters :
          handleSelectCharacter_press(c, u, ch)
    \/ \E c \in Calls : handleSelectCharacter_remove(c)
    \/ \E c \in Calls : handleSelectCharacter_select(c)
    \/ \E c \in Calls : handleSelectCharacter_onSelect(c)
    \/ \E c \in Calls, ch \in DOMAIN virtualUserId : handleAddVirtualPlayer_press(c, ch)
    \/ \E c \in Calls : handleAddVirtualPlayer_addPlayer(c)
    \/ \E c \in Calls : handleAddVirtualPlayer_check(c)
    \/ \E c \in Calls : handleAddVirtualPlayer_select(c)
    \/ \E c \in Calls : Return(c)

SpecSelect == Init /\ [][NextSelect]_vars

\* GameView given any gameData prop: no game data, or two players with any
\* accusation lists.
InitVotes ==
    /\ gameExists = FALSE
    /\ status = "NONE"
    /\ currentRound = 0
    /\ gameAccusations = <<>>
    /\ players = {}
    /\ roundStates = [u \in Users |-> NoRoundStates]
    /\ readyStatus = [u \in Users |-> "none"]
    /\ made = [u \in Users |-> <<>>]
    /\ characterName = [u \in Users |-> "null"]
    /\ calls = [c \in Calls |-> Idle]
    /\ failures = 0
    /\ readyCalls = 0
    /\ now = 0
    /\ voteTotals = NoVotes
    /\ games = {}
    /\ gameState = "NONE"
    /\ fetches = [f \in Fetches |-> NoFetch]
    /\ seen = [game |-> NullData, players |-> NullData]
    /\ lastData = NullData
    /\ delivered = NullData
    /\ called = FALSE
    /\ \/ gameData = NoGameData
       \/ \E m1, m2 \in VoteLists :
             gameData = [hasPlayers |-> TRUE,
                         players |-> <<[username |-> "host", made |-> m1],
                                       [username |-> "p1", made |-> m2]>>]

NextVotes == \E h \in HumorousOptions : GameView_getAccusationVoteTotals(h)

SpecVotes == InitVotes /\ [][NextVotes]_vars

-----------------------------------------------------------------------------
(* Properties *)

TypeOK ==
    /\ gameExists \in BOOLEAN
    /\ currentRound \in 0..MaxRound
    /\ status \in {"NONE", "LOBBY", "IN_PROGRESS", "COMPLETED"}
    /\ players \subseteq Users
    /\ roundStates \in [Users -> [Keys -> [ready : Tri, sub : Tri]]]
    /\ readyStatus \in [Users -> Tri]
    /\ characterName \in [Users -> Characters \cup {"null"}]
    /\ failures \in 0..MaxFailures
    /\ readyCalls \in 0..MaxReadyCalls
    /\ gameState \in {"NONE", "LOBBY", "COMPLETED", "DELETED"}
    /\ games \subseteq GameIds

\* the phase sequence with its pre-start sentinel
phases == <<0>> \o roundOrder

\* b is the immediate successor of a in the phase sequence
IsSuccessor(a, b) ==
    \E i \in 1..(Len(phases) - 1) : phases[i] = a /\ phases[i + 1] = b

\* call c performs the write of advanceRound that changes the round marker
AdvancesMarker(c) ==
    /\ At(c, "advanceRound", "update")
    /\ calls'[c].pc # "update"
    /\ currentRound' # currentRound

\* call c settles successfully in this step
Completes(c, op) ==
    /\ calls[c].op = op
    /\ calls[c].pc # "done"
    /\ calls'[c].pc = "done"

\* C1: in every reachable state the round marker is one of 0, 1, 2, 3, 4, 5,
\* 5.5, 6, 7; advanceRound on a session at round 7 leaves it at 7.
C1_RoundMarkerInSequence == currentRound \in RoundSet

\* C2: every change of the round marker moves it to its immediate successor
\* in 0, 1, 2, 3, 4, 5, 5.5, 6, 7: never backward, never skipping, under any
\* interleaving of startGame and advanceRound calls.
C2_MarkerMovesToSuccessor ==
    [][currentRound' # currentRound => IsSuccessor(currentRound, currentRound')]_vars

\* C3: advanceRound moves a session off round 1, 2, 3, 4, 5 or 6 only when
\* all joined players are ready for that round; otherwise it is rejected and
\* the marker stays.
C3_AdvanceOnlyWhenAllReady ==
    [][\A c \in Calls :
         (AdvancesMarker(c) /\ currentRound \in {10, 20, 30, 40, 50, 60})
         => allPlayersReadyForRound(players, roundStates, currentRound)]_vars

\* C4: advanceRound moves a session from round 5.5 to round 6 only if every
\* joined player has an accusation recorded for round 5.5; otherwise the
\* marker stays 5.5.
C4_AdvanceOnlyWhenAllAccused ==
    [][\A c \in Calls :
         (AdvancesMarker(c) /\ currentRound = 55)
         => allAccusationsSubmitted(players, made)]_vars

\* C5: a session leaves round 0 for round 1 only when at least minPlayers
\* players have joined, and that step sets status IN_PROGRESS; a start with
\* fewer players leaves status LOBBY and round 0.
C5_StartOnlyWithMinPlayers ==
    [][(currentRound = 0 /\ currentRound' = 10)
         => (Cardinality(players) >= minPlayers /\ status' = "IN_PROGRESS")]_vars

\* C6: immediately after a successful startGame or advanceRound, every joined
\* player has a readiness entry for the new round whose value is false.
C6_NewRoundReadinessIsFalse ==
    [][\A c \in Calls :
         (Completes(c, "startGame") \/ Completes(c, "advanceRound"))
         => \A p \in players' :
               RoundState(roundStates'[p], currentRound') = "false"]_vars

\* C7: in every reachable state, intermediate ones included, status is
\* COMPLETED iff the round marker is 7, and status LOBBY implies marker 0.
C7_StatusMatchesMarker ==
    gameExists =>
        /\ (status = "COMPLETED") <=> (currentRound = 70)
        /\ (status = "LOBBY") => (currentRound = 0)

\* C8: no snapshot returned by getGameData shows the session at a round r
\* that advanceRound has just written while a joined player of the snapshot
\* lacks the readiness entry of r that the reset writes.
C8_SnapshotShowsResetWithMarker ==
    [][\A c \in Calls :
         (Completes(c, "getGameData") /\ calls[c].r \in {20, 30, 40, 50, 60, 70})
         => \A p \in calls'[c].ps :
               RoundState(roundStates[p], calls[c].r) # "none"]_vars

\* C9: if advanceRound fails at any step, the round marker is the one the
\* session had before the call: no failed call leaves the marker advanced.
C9_FailedAdvanceChangesNothing ==
    \A c \in Calls :
        (calls[c].op = "advanceRound" /\ calls[c].pc = "failed")
        => currentRound = calls[c].r

\* C10: updatePlayerReady(session, player, ready, round) leaves the round
\* marker, the status, every other player's readiness and the player's
\* entries for rounds other than `round` unchanged.
C10_ReadyWritesOneEntry ==
    [][\A u \in Users, ready \in BOOLEAN, round \in RoundSet :
         updatePlayerReady(u, ready, round)
         => /\ currentRound' = currentRound
            /\ status' = status
            /\ \A v \in Users \ {u} : roundStates'[v] = roundStates[v]
            /\ \A k \in Keys :
                  (round % 10 # 0 \/ k # round \div 10)
                  => roundStates'[u][k] = roundStates[u][k]]_vars

\* C11: in every reachable state each player's readiness map has entries only
\* for rounds the session has reached (rounds not greater than the marker).
C11_ReadinessOnlyForReachedRounds ==
    \A p \in players : \A k \in Keys :
        roundStates[p][k] # NoEntry => k * 10 <= currentRound

\* a is a prefix of b
IsPrefix(a, b) == Len(a) <= Len(b) /\ \A i \in 1..Len(a) : b[i] = a[i]

\* x is an element of the array arr
Contains(arr, x) == \E i \in 1..Len(arr) : arr[i] = x

\* the record submitAccusation call c adds to the player's list
PlayerRecord(c) ==
    [round |-> 55, accusedCharacter |-> calls[c].accused, timestamp |-> calls[c].ts]

\* the record submitAccusation call c adds to the session's aggregate list
GameRecord(c) ==
    [accuserId |-> calls[c].user, accuserCharacter |-> calls[c].character,
     accusedCharacter |-> calls[c].accused, timestamp |-> calls[c].ts]

\* call c performs the player-list write of submitAccusation
WritesPlayerList(c) ==
    At(c, "submitAccusation", "updatePlayer") /\ calls'[c].pc = "updateGame"

\* C12 as stated: each successful submitAccusation appends exactly one record
\* to the player's own list and exactly one to the session's aggregate list.
C12_AppendsExactlyOne ==
    [][\A c \in Calls :
         /\ WritesPlayerList(c)
            => made'[calls[c].user] = Append(made[calls[c].user], PlayerRecord(c))
         /\ Completes(c, "submitAccusation")
            => gameAccusations' = Append(gameAccusations, GameRecord(c))]_vars

\* C12 (amended): each successful submitAccusation removes or replaces no
\* record of the player's list or of the aggregate list, leaves its record in
\* both, and lengthens a list by one exactly when the list did not already
\* hold an equal record (same accused character, same millisecond timestamp).
C12_AppendsUnlessPresent ==
    [][\A c \in Calls :
         /\ WritesPlayerList(c)
            => LET old == made[calls[c].user]
                   new == made'[calls[c].user]
               IN /\ IsPrefix(old, new)
                  /\ Contains(new, PlayerRecord(c))
                  /\ Len(new) = Len(old) + (IF Contains(old, PlayerRecord(c)) THEN 0 ELSE 1)
         /\ Completes(c, "submitAccusation")
            => /\ IsPrefix(gameAccusations, gameAccusations')
               /\ Contains(gameAccusations', GameRecord(c))
               /\ Len(gameAccusations') = Len(gameAccusations)
                     + (IF Contains(gameAccusations, GameRecord(c)) THEN 0 ELSE 1)]_vars

\* a player has accused two different characters and both records are in the
\* player's list and in the aggregate list
C12_TwoAccusationsRecorded ==
    \E u \in players : \E i, j \in 1..Len(made[u]) :
        /\ made[u][i].accusedCharacter # made[u][j].accusedCharacter
        /\ \A k \in {i, j} :
              Contains(gameAccusations,
                       [accuserId |-> u,
                        accuserCharacter |-> characterName[u],
                        accusedCharacter |-> made[u][k].accusedCharacter,
                        timestamp |-> made[u][k].timestamp])
        /\ \A c \in Calls : calls[c].op = "idle"

\* C13: submitAccusation with an empty accused character name is rejected with
\* an error and adds no record to the player's list or to the aggregate list.
C13_EmptyAccusedRejected ==
    /\ \A u \in Users : \A i \in 1..Len(made[u]) : made[u][i].accusedCharacter # ""
    /\ \A i \in 1..Len(gameAccusations) : gameAccusations[i].accusedCharacter # ""
    /\ \A c \in Calls :
          (calls[c].op = "submitAccusation" /\ calls[c].accused = "")
          => calls[c].pc # "done"

\* C15: an accusation record tagged with round 5.5 is only ever created while
\* the session's round marker is 5.5.
C15_AccusationOnlyInAccusationRound ==
    [][\A c \in Calls :
         (WritesPlayerList(c) /\ made' # made) => currentRound = 55]_vars

\* the indices at which array arr holds x
IndicesOf(arr, x) == {i \in 1..Len(arr) : arr[i] = x}

\* the indices of the round-5.5 records of list m that accuse character c
AccusationsOf(m, c) ==
    {j \in 1..Len(m) : m[j].round = 55 /\ m[j].accusedCharacter = c}

\* vt maps every character to the players of gd that accused it in round 5.5,
\* one element per record
VotesMatch(gd, vt) ==
    \A c \in Characters :
        /\ c \in vt.keys
        /\ \A i \in 1..Len(gd.players) :
              Cardinality(IndicesOf(vt.lists[c], gd.players[i].username))
                 = Cardinality(AccusationsOf(gd.players[i].made, c))
        /\ \A k \in 1..Len(vt.lists[c]) :
              \E i \in 1..Len(gd.players) : gd.players[i].username = vt.lists[c][k]

C16_RejoinChangesNothing ==
    [][\A c \in Calls, u \in Users :
         (joinGame_read(c, u) /\ u \in players)
         => /\ calls'[c].pc = "done"
            /\ players' = players
            /\ characterName' = characterName
            /\ roundStates' = roundStates
            /\ readyStatus' = readyStatus
            /\ made' = made]_vars

\* a joinGame call has returned to a player that had a record, and a
\* character, when it joined again
C16_RejoinedWithCharacter ==
    \E c \in Calls :
        /\ calls[c].op = "joinGame" /\ calls[c].pc = "done" /\ calls[c].r = 1
        /\ calls[c].user \in players
        /\ characterName[calls[c].user] # "null"

\* C17: in every reachable state the number of player records of a session,
\* real and virtual together, is at most the session's maxPlayers.
C17_AtMostMaxPlayers == Cardinality(players) <= maxPlayers

\* C18: joinGame by an identity that has no player record, on a session whose
\* status is not LOBBY, fails with an error and creates no player record.
C18_NoJoinAfterStart ==
    [][\A c \in Calls, u \in Users :
         (joinGame_read(c, u) /\ gameExists /\ status # "LOBBY" /\ u \notin players)
         => calls'[c].pc = "failed"]_vars

\* C19: in every reachable state, for each character at most one non-virtual
\* player of the session has that character assigned.
C19_OneRealPlayerPerCharacter ==
    \A ch \in Characters : \A p, q \in players :
        (~isVirtual(p) /\ ~isVirtual(q)
         /\ characterName[p] = ch /\ characterName[q] = ch) => p = q

\* C20: when a real player selects a character held by a virtual player, the
\* virtual player's record is removed before the character is assigned to the
\* real player, and once the handler has assigned it (selectCharacter, and
\* again in onSelectCharacter) the real player is its only holder.
C20_VirtualDisplacedBeforeAssign ==
    [][\A c \in Calls :
          (/\ calls[c].op = "handleSelectCharacter"
           /\ calls[c].virtual # "none"
           /\ \/ handleSelectCharacter_select(c) /\ calls'[c].pc = "onSelect"
              \/ handleSelectCharacter_onSelect(c) /\ calls'[c].pc = "done")
          => /\ calls[c].virtual \in players
                  => characterName[calls[c].virtual] # calls[c].accused
             /\ \A p \in players' :
                  characterName'[p] = calls[c].accused => p = calls[c].user]_vars

\* C21: assignCharacter (selectCharacter) for an identity with no player
\* record in the session fails, creates no player record and changes no
\* player's character.
C21_AssignWithoutRecordFails ==
    [][\A c \in Calls :
          (assignCharacter_update(c) /\ calls[c].user \notin players)
          => /\ calls'[c].pc = "failed"
             /\ players' = players
             /\ characterName' = characterName]_vars

\* an assignCharacter call for an identity without a record has failed in a
\* session where another player holds a character
C21_AssignFailedForStranger ==
    \E c \in Calls :
        /\ At(c, "assignCharacter", "failed")
        /\ gameExists
        /\ calls[c].user \notin players
        /\ \E p \in players : characterName[p] # "null"

\* C22: createGame with a scriptId the script catalog does not contain fails
\* and writes no session record and no player record.
C22_UnknownScriptWritesNothing ==
    [][\A c \in Calls, scriptId \in ScriptIds \ loadedScripts :
          createGame_getGameScript(c, scriptId)
          => /\ calls'[c].pc = "failed"
             /\ UNCHANGED store]_vars

\* a createGame call has failed while no session exists and no player record
\* was written
C22_CreateFailedNoSession ==
    \E c \in Calls :
        /\ At(c, "createGame", "failed")
        /\ ~gameExists
        /\ players = {}

\* C23: generateUniqueGameId checks at most maxAttempts candidates and always
\* terminates; it returns a code only if no session with that code existed
\* when it was checked, draws a new candidate after each collision, and fails
\* only on the last attempt.
C23_UniqueIdWithinMaxAttempts ==
    /\ [][\A c \in Calls :
            calls[c].op = "generateUniqueGameId"
            => /\ calls[c].r \in 1..maxAttempts
               /\ generateUniqueGameId_get(c)
                  => /\ calls'[c].pc \in {"done", "failed", "next"}
                     /\ calls'[c].pc = "done"
                        => /\ calls[c].gameId \notin games
                           /\ calls'[c].gameId = calls[c].gameId
                     /\ calls'[c].pc = "failed" => calls[c].r = maxAttempts
                     /\ (calls[c].gameId \in games /\ calls[c].r < maxAttempts)
                        => calls'[c].pc = "next"
               /\ calls[c].pc = "next"
                  => \A gameId \in GameIds :
                        generateUniqueGameId_next(c, gameId)
                        => calls'[c].r = calls[c].r + 1]_vars
    /\ \A c \in Calls :
          (calls[c].op = "generateUniqueGameId")
          ~> (calls[c].pc \in {"done", "failed"})

\* a call has failed after its tenth collision
C23_AllAttemptsCollided ==
    \E c \in Calls :
        /\ At(c, "generateUniqueGameId", "failed")
        /\ calls[c].r = maxAttempts
        /\ calls[c].gameId \in games

\* C24: softDeleteGame called by the host marks the session DELETED and
\* leaves the session record, every player record and the round marker as
\* they were; called by anyone else it fails and changes nothing.
C24_SoftDeleteOnlyFlags ==
    [][\A c \in Calls :
          /\ softDeleteGame_update(c)
             => /\ calls[c].user = hostUserId
                /\ gameState' = "DELETED"
                /\ UNCHANGED store
          /\ \A u \in RealUsers \ {hostUserId} :
                softDeleteGame_read(c, u)
                => /\ calls'[c].pc = "failed"
                   /\ UNCHANGED <<store, gameState>>
          /\ (/\ calls'[c] # calls[c]
              /\ calls[c].op = "softDeleteGame"
              /\ calls'[c].op = "softDeleteGame")
             => /\ UNCHANGED store
                /\ gameState' # gameState => calls[c].user = hostUserId]_vars

\* the host has soft-deleted a started session that still has its two
\* players and its round marker
C24_DeletedSessionKept ==
    /\ gameState = "DELETED"
    /\ gameExists
    /\ players = RealUsers
    /\ currentRound = 10
    /\ \E c \in Calls : At(c, "softDeleteGame", "done")

\* the snapshot getGameData would return from the store as it is now
currentSnapshot ==
    IF gameExists THEN Spread(gameDocData, playersData) ELSE NullData

\* C25: once writes to the session and its players stop, the last snapshot
\* delivered to the subscribeToGame callback eventually equals the store's
\* session and player state, and stays equal.
C25_DeliveredSnapshotConverges ==
    <>[](stripVolatileFields(delivered) = stripVolatileFields(currentSnapshot))

\* data with the fields updatedAt, createdAt, startedAt, completedAt and
\* lastActiveAt removed wherever they occur
withoutVolatileFields(data) ==
    IF data.isNull THEN data
    ELSE [data EXCEPT
            !.updatedAt = Stripped,
            !.players = [u \in DOMAIN data.players |->
                            [data.players[u] EXCEPT !.lastActiveAt = Stripped]],
            !.roundData = [@ EXCEPT !.startedAt = Stripped,
                                    !.completedAt = Stripped,
                                    !.sub = [@ EXCEPT !.startedAt = Stripped,
                                                      !.completedAt = Stripped]]]

\* C30: the subscribeToGame callback is never invoked twice in a row with
\* snapshots that are equal once the volatile timestamp fields are removed,
\* and it is invoked whenever a fetched snapshot differs from the last
\* delivered one in any other field.
C30_NoDuplicateDelivery ==
    [][\A data \in FetchedSnapshots \cup {NullData} :
          (subscribeToGame_handleUpdate(data) /\ called)
          => /\ lastData' # lastData
                => withoutVolatileFields(delivered') # withoutVolatileFields(delivered)
             /\ withoutVolatileFields(data) # withoutVolatileFields(delivered)
                => (lastData' # lastData /\ delivered' = data)]_vars

\* C26: a session never moves from LOBBY to IN_PROGRESS while some joined
\* player has no character assigned.
C26_StartOnlyWithAllCharacters ==
    [][\A c \in Calls :
          (startGame_update(c) /\ status = "LOBBY")
          => \A p \in players : characterName[p] # "null"]_vars

\* C27: once a player is ready (true) for the session's current round, the
\* readiness stays true until an updatePlayerReady call sets it false or the
\* round marker changes; the reset of advanceRound does not overwrite it.
C27_ReadyStaysUntilWithdrawn ==
    [][\A p \in players :
          (/\ RoundState(roundStates[p], currentRound) = "true"
           /\ currentRound' = currentRound
           /\ RoundState(roundStates'[p], currentRound) # "true")
          => handleSetPlayerReady(p, FALSE)]_vars

\* C28: a character selection never hard-deletes the player record of a real
\* participant, whatever username the participant has. In SpecNames every
\* player record belongs to a real participant, so the displacement step of
\* handleSelectCharacter must not remove any record.
C28_SelectionKeepsRealPlayers ==
    [][\A c \in Calls : handleSelectCharacter_remove(c) => players' = players]_vars

====
